---------------------------- MODULE Spec2Model ----------------------------
(***************************************************************************)
(* The simulation engine of industrial-process-control: the single         *)
(* parameter dashboard (ProcessControlDashboard), the multi parameter      *)
(* dashboard (MultiParameterControlDashboard) with its parameter cards,    *)
(* and the React effect that arms and clears the setInterval timer.        *)
(*                                                                         *)
(* Numbers.  A JavaScript number x is held as the integer x * Scale.  The  *)
(* unit is chosen so that every value a dashboard reaches within MaxTicks  *)
(* ticks of its mount is exact; on longer runs error * 0.1 is rounded to   *)
(* the unit, as floating point rounds to its own.                          *)
(*                                                                         *)
(* Math.random().  A draw is k \in Rand and stands for k / RandDen, a      *)
(* value of [0, 1).                                                        *)
(*                                                                         *)
(* Time.  A timer holds the number of time quanta left before it fires;    *)
(* the interval of a dashboard is Period quanta.  Date.now() at a tick is  *)
(* the ordinal of the tick since the mount (clock, mClock): wall time      *)
(* grows from one tick to the next, so the order of the timestamps is the  *)
(* order of the ticks.                                                     *)
(***************************************************************************)
EXTENDS Integers, Sequences, FiniteSets, TLC

VARIABLES
    \* ProcessControlDashboard
    processData,    \* useState<ProcessData[]>([])
    currentPV,      \* useState(45.2)
    currentSP,      \* useState(50.0)
    aiEnabled,      \* useState(true)
    spLowLimit,     \* useState([20]), the [0] element
    spHighLimit,    \* useState([80]), the [0] element
    manualSP,       \* useState(50.0)
    intervals,      \* the live setInterval timers of the dashboard: quanta left
    mounted,        \* the dashboard is mounted (its effect has run)
    clock,          \* timer firings since the mount
    produced,       \* every sample appended since the mount, in order (history variable)
    updates,        \* the setState calls of a timer callback that React has not rendered yet
    \* MultiParameterControlDashboard
    parameters,     \* useState<ProcessParameter[]>([...])
    fractionData,   \* useState<FractionData[]>([])
    currentFraction,\* useState(78.5)
    targetFraction, \* useState(82.0)
    mIntervals,     \* the live setInterval timers of the dashboard
    mMounted,       \* the dashboard is mounted
    mClock          \* timer firings since the mount

singleVars == <<processData, currentPV, currentSP, aiEnabled, spLowLimit,
                spHighLimit, manualSP, intervals, mounted, clock, produced,
                updates>>
multiVars == <<parameters, fractionData, currentFraction, targetFraction,
               mIntervals, mMounted, mClock>>
vars == <<singleVars, multiVars>>

---------------------------------------------------------------------------
(* Bounds of the model *)

\* Ticks explored per mount with every draw of Math.random().
MaxTicks == 2
\* Ticks of the multi parameter dashboard explored per mount with every draw.
MaxMultiTicks == 1
\* Ticks explored per mount on the long runs that fill the history.
LongTicks == 52
\* Math.random() is read on the grid {0, 1/RandDen, ..., (RandDen-1)/RandDen}.
RandDen == 4
\* Time quanta per timer interval.
Period == 2

Max(a, b) == IF a >= b THEN a ELSE b
Min(a, b) == IF a <= b THEN a ELSE b
Abs(a) == IF a >= 0 THEN a ELSE -a

RECURSIVE Pow10(_)
Pow10(n) == IF n = 0 THEN 1 ELSE 10 * Pow10(n - 1)

\* The fixed point unit: x is held as x * Scale.
Scale == 4 * RandDen * Pow10(Max(MaxTicks, MaxMultiTicks) + 1)

\* num / den as a fixed point value (exact for the literals of the source).
Fx(num, den) == (num * Scale) \div den

\* The draws explored: the smallest value of the grid, its middle and its largest.
Rand == {0, RandDen \div 2, RandDen - 1}


---------------------------------------------------------------------------
(* Program constants *)

\* .slice(-50): the history keeps the most recent 50 samples.
HistoryLen == 50

---------------------------------------------------------------------------
(* The update rule *)

\* Mutant of Perturbation: twice the amplitude, (Math.random() - 0.5) * 4.
PerturbationDouble(k) == ((4 * k - 2 * RandDen) * Scale) \div RandDen

\* (Math.random() - 0.5) * 2
Perturbation(k) == ((2 * k - RandDen) * Scale) \div RandDen

\* Mutant of Noise: the amplitude of the setpoint perturbation, (Math.random() - 0.5) * 2.
NoiseWide(k) == ((2 * k - RandDen) * Scale) \div RandDen

\* (Math.random() - 0.5) * 1.5
Noise(k) == ((2 * k - RandDen) * 3 * Scale) \div (4 * RandDen)

\* Mutant of Clamp: the lower limit is not applied, Math.min(high, x).
ClampUpperOnly(x, low, high) == Min(high, x)

\* Math.max(low, Math.min(high, x))
Clamp(x, low, high) == Max(low, Min(high, x))

\* Mutant of AiSetpoint: the AI setpoint is not clamped.
AiSetpointUnclamped(ai, sp, low, high, manual, k) ==
    IF ai THEN sp + ((2 * k - RandDen) * Scale) \div RandDen ELSE manual

\* Mutant of AiSetpoint: the manual setpoint is clamped as the AI one is.
AiSetpointClamped(ai, sp, low, high, manual, k) ==
    Max(low, Min(high, IF ai THEN sp + ((2 * k - RandDen) * Scale) \div RandDen ELSE manual))

\* aiEnabled ? Math.max(spLowLimit[0], Math.min(spHighLimit[0], currentSP + (Math.random() - 0.5) * 2)) : manualSP
AiSetpoint(ai, sp, low, high, manual, k) ==
    IF ai THEN Clamp(sp + Perturbation(k), low, high) ELSE manual

\* Mutant of Gain: error * 0.2.
GainDouble(error) == error \div 5

\* error * 0.1
Gain(error) == error \div 10

\* const error = aiSp - currentPV; const newPV = currentPV + error * 0.1 + (Math.random() - 0.5) * 1.5
NewPV(pv, aiSp, k) == pv + Gain(aiSp - pv) + Noise(k)

\* Mutant of SliceLast: no slice, the history grows with every sample.
SliceNone(s, n) == s

\* Mutant of SliceLast: s.slice(0, n), the first n samples are kept.
SliceFirst(s, n) == IF Len(s) <= n THEN s ELSE SubSeq(s, 1, n)

\* s.slice(-n)
SliceLast(s, n) == IF Len(s) <= n THEN s ELSE SubSeq(s, Len(s) - n + 1, Len(s))

\* Mutant of Push: the samples already held take the setpoint of the new one.
PushRewriting(prev, sample) ==
    SliceLast(Append([j \in 1 .. Len(prev) |-> [prev[j] EXCEPT !.sp = sample.sp]], sample),
              HistoryLen)

\* [...prev, sample].slice(-50)
Push(prev, sample) == SliceLast(Append(prev, sample), HistoryLen)

---------------------------------------------------------------------------
(* The effect: setInterval on run, clearInterval on cleanup *)

\* const interval = setInterval(..., period)
SetInterval(ivs) == Append(ivs, Period)

\* Mutant of ClearInterval: the cleanup does not clear the timer.
ClearIntervalForgotten(ivs) == ivs

\* Mutant of ClearInterval: a toggle, which arms a timer when none is armed.
ClearIntervalToggle(ivs) == IF ivs = <<>> THEN <<Period>> ELSE <<>>

\* return () => clearInterval(interval): clears the timer this effect run armed,
\* the most recent one
ClearInterval(ivs) == IF ivs = <<>> THEN ivs ELSE SubSeq(ivs, 1, Len(ivs) - 1)

\* Mutant of RerunEffect: the effect is run again without the cleanup of its last run.
RerunEffectNoCleanup(ivs) == Append(ivs, Period)

\* A dependency changed: React runs the cleanup of the last run, then the effect.
RerunEffect(ivs) == SetInterval(ClearInterval(ivs))

\* Some timer of ivs is due.
Due(ivs) == \E i \in 1 .. Len(ivs) : ivs[i] = 0

\* Mutant of Refire: the timer that fired is armed again with no delay.
RefireAtOnce(ivs) == ivs

\* The timer that fired is a periodic one: it is armed again for a full period.
Refire(ivs) ==
    LET i == CHOOSE j \in 1 .. Len(ivs) : ivs[j] = 0
    IN  [ivs EXCEPT ![i] = Period]

\* One quantum passes.
Elapse(ivs) == [i \in 1 .. Len(ivs) |-> ivs[i] - 1]

---------------------------------------------------------------------------
(* ProcessControlDashboard *)

InitSingleState ==
    /\ processData = <<>>
    /\ currentPV = Fx(452, 10)
    /\ currentSP = Fx(50, 1)
    /\ aiEnabled = TRUE
    /\ spLowLimit = Fx(20, 1)
    /\ spHighLimit = Fx(80, 1)
    /\ manualSP = Fx(50, 1)
    /\ clock = 0
    /\ produced = <<>>
    /\ updates = <<>>

\* The state a fresh instance of the component starts from (the useState initialisers).
ResetSingleState ==
    /\ processData' = <<>>
    /\ currentPV' = Fx(452, 10)
    /\ currentSP' = Fx(50, 1)
    /\ aiEnabled' = TRUE
    /\ spLowLimit' = Fx(20, 1)
    /\ spHighLimit' = Fx(80, 1)
    /\ manualSP' = Fx(50, 1)
    /\ clock' = 0
    /\ produced' = <<>>
    /\ updates' = <<>>

\* start(): the component mounts and its effect arms the timer.
Mount ==
    /\ ~mounted
    /\ mounted' = TRUE
    /\ ResetSingleState
    /\ intervals' = SetInterval(intervals)
    /\ UNCHANGED multiVars

\* stop(): the component unmounts and the cleanup of its effect runs.
Unmount ==
    /\ mounted
    /\ mounted' = FALSE
    /\ intervals' = ClearInterval(intervals)
    /\ updates' = <<>>
    /\ UNCHANGED <<processData, currentPV, currentSP, aiEnabled, spLowLimit,
                   spHighLimit, manualSP, clock, produced>>
    /\ UNCHANGED multiVars

\* The callback of setInterval, with the two draws of Math.random() it makes,
\* and the re-render its three setState calls cause.
Tick(ks, kn) ==
    /\ Due(intervals)
    /\ LET aiSp == AiSetpoint(aiEnabled, currentSP, spLowLimit, spHighLimit, manualSP, ks)
           newPV == NewPV(currentPV, aiSp, kn)
           sample == [timestamp |-> clock + 1, pv |-> newPV, sp |-> aiSp, aiSp |-> aiSp]
       IN  /\ currentPV' = newPV
           /\ currentSP' = aiSp
           /\ processData' = Push(processData, sample)
           /\ produced' = Append(produced, sample)
    /\ clock' = clock + 1
    /\ intervals' = RerunEffect(Refire(intervals))
    /\ UNCHANGED <<aiEnabled, spLowLimit, spHighLimit, manualSP, mounted, updates>>
    /\ UNCHANGED multiVars

TickAny ==
    /\ clock < MaxTicks
    /\ \E ks \in Rand, kn \in Rand : Tick(ks, kn)

\* The values the manual setpoint input is given: the initial one, one below
\* every low limit and one above every high limit.
ManualChoices == {Fx(50, 1), Fx(10, 1), Fx(90, 1)}
\* The positions the limit sliders are moved to; every pair has low < high.
LowChoices == {Fx(20, 1), Fx(60, 1)}
HighChoices == {Fx(80, 1), Fx(70, 1)}

\* A state setter called by the control panel: the state changes, the component
\* renders again and, the value being a dependency of the effect, the effect
\* is cleaned up and run again.
SetAiEnabled(b) ==
    /\ mounted
    /\ b # aiEnabled
    /\ aiEnabled' = b
    /\ intervals' = RerunEffect(intervals)
    /\ UNCHANGED <<processData, currentPV, currentSP, spLowLimit, spHighLimit,
                   manualSP, mounted, clock, produced, updates>>
    /\ UNCHANGED multiVars

SetManualSP(v) ==
    /\ mounted
    /\ v # manualSP
    /\ manualSP' = v
    /\ intervals' = RerunEffect(intervals)
    /\ UNCHANGED <<processData, currentPV, currentSP, aiEnabled, spLowLimit,
                   spHighLimit, mounted, clock, produced, updates>>
    /\ UNCHANGED multiVars

SetSpLowLimit(v) ==
    /\ mounted
    /\ v # spLowLimit
    /\ spLowLimit' = v
    /\ intervals' = RerunEffect(intervals)
    /\ UNCHANGED <<processData, currentPV, currentSP, aiEnabled, spHighLimit,
                   manualSP, mounted, clock, produced, updates>>
    /\ UNCHANGED multiVars

SetSpHighLimit(v) ==
    /\ mounted
    /\ v # spHighLimit
    /\ spHighLimit' = v
    /\ intervals' = RerunEffect(intervals)
    /\ UNCHANGED <<processData, currentPV, currentSP, aiEnabled, spLowLimit,
                   manualSP, mounted, clock, produced, updates>>
    /\ UNCHANGED multiVars

\* One quantum of time passes; a timer that is due fires, and a render that is
\* pending runs, before time goes on.
Advance ==
    /\ intervals # <<>> \/ mIntervals # <<>>
    /\ ~Due(intervals)
    /\ ~Due(mIntervals)
    /\ updates = <<>>
    /\ intervals' = Elapse(intervals)
    /\ mIntervals' = Elapse(mIntervals)
    /\ UNCHANGED <<processData, currentPV, currentSP, aiEnabled, spLowLimit,
                   spHighLimit, manualSP, mounted, clock, produced, updates>>
    /\ UNCHANGED <<parameters, fractionData, currentFraction, targetFraction,
                   mMounted, mClock>>

---------------------------------------------------------------------------
(* The timer callback and the render that follows it, as two steps *)

\* The three setState calls of the callback, in their order.  Each is held with
\* the newDataPoint of the tick, whose fields are the values the calls are
\* given: setCurrentPV(newPV), setCurrentSP(aiSp), setProcessData(prev =>
\* [...prev, newDataPoint].slice(-50)).
QueuedUpdates(sample) ==
    << [setter |-> "setCurrentPV", point |-> sample],
       [setter |-> "setCurrentSP", point |-> sample],
       [setter |-> "setProcessData", point |-> sample] >>

\* Mutant of Batch: every setState call is rendered on its own.
BatchOne(q) == IF q = <<>> THEN q ELSE <<Head(q)>>

\* The queued updates one render applies: React 18 batches the setState calls
\* of a timer callback, so all of them.
Batch(q) == q

\* One queued update applied to the state of the component.
ApplyUpdate(state, u) ==
    CASE u.setter = "setCurrentPV" -> [state EXCEPT !.currentPV = u.point.pv]
      [] u.setter = "setCurrentSP" -> [state EXCEPT !.currentSP = u.point.aiSp]
      [] u.setter = "setProcessData" ->
            [state EXCEPT !.processData = Push(@, u.point),
                          !.produced = Append(@, u.point)]

RECURSIVE ApplyUpdates(_, _)
ApplyUpdates(state, q) ==
    IF q = <<>> THEN state ELSE ApplyUpdates(ApplyUpdate(state, Head(q)), Tail(q))

\* The callback of setInterval, from its start to its return: the draws, the
\* update rule on the values of the render it closes over, and the three
\* setState calls, which React queues.  The runtime arms the timer again.
TickCall(ks, kn) ==
    /\ Due(intervals)
    /\ LET aiSp == AiSetpoint(aiEnabled, currentSP, spLowLimit, spHighLimit, manualSP, ks)
           newPV == NewPV(currentPV, aiSp, kn)
           sample == [timestamp |-> clock + 1, pv |-> newPV, sp |-> aiSp, aiSp |-> aiSp]
       IN  updates' = updates \o QueuedUpdates(sample)
    /\ intervals' = Refire(intervals)
    /\ UNCHANGED <<processData, currentPV, currentSP, aiEnabled, spLowLimit,
                   spHighLimit, manualSP, mounted, clock, produced>>
    /\ UNCHANGED multiVars

TickCallAny ==
    /\ clock < MaxTicks
    /\ \E ks \in Rand, kn \in Rand : TickCall(ks, kn)

\* The render React has scheduled for the queued updates: the batch is applied
\* and, currentPV and currentSP being dependencies of the effect, the effect is
\* cleaned up and run again when one of them changed.
Render ==
    /\ updates # <<>>
    /\ LET batch == Batch(updates)
           after == ApplyUpdates([currentPV |-> currentPV, currentSP |-> currentSP,
                                  processData |-> processData, produced |-> produced],
                                 batch)
       IN  /\ currentPV' = after.currentPV
           /\ currentSP' = after.currentSP
           /\ processData' = after.processData
           /\ produced' = after.produced
           /\ clock' = clock + (Len(after.produced) - Len(produced))
           /\ updates' = SubSeq(updates, Len(batch) + 1, Len(updates))
           /\ intervals' = IF after.currentPV # currentPV \/ after.currentSP # currentSP
                            THEN RerunEffect(intervals)
                            ELSE intervals
    /\ UNCHANGED <<aiEnabled, spLowLimit, spHighLimit, manualSP, mounted>>
    /\ UNCHANGED multiVars

---------------------------------------------------------------------------
(* MultiParameterControlDashboard *)

\* The parameters that receive every draw of Math.random(), one of them per
\* tick: the two whose pv the fraction reads by name.  The other parameters
\* receive the middle draw.
DrawnParams == {1, 2}

\* The cards whose limit sliders are dragged.
EditedCards == {1}

\* The ids of the eight parameters, in the order of the parameter grid.
ParamIds == <<"ore", "water", "reagent", "ph", "temperature", "pressure",
              "agitation", "air">>

\* The first element of the useState initialiser.
OreParameter ==
    [id |-> "ore", pv |-> Fx(1255, 10), sp |-> Fx(130, 1), aiSp |-> Fx(130, 1),
     lowLimit |-> Fx(100, 1), highLimit |-> Fx(200, 1), trend |-> <<>>]

\* The elements the source leaves out ("Additional parameters..."): water at the
\* values its influence falls back to, the others at the defaults of the single
\* parameter dashboard.
OtherParameter(i) ==
    IF i = 2
    THEN [id |-> ParamIds[i], pv |-> Fx(45, 1), sp |-> Fx(48, 1), aiSp |-> Fx(48, 1),
          lowLimit |-> Fx(30, 1), highLimit |-> Fx(80, 1), trend |-> <<>>]
    ELSE [id |-> ParamIds[i], pv |-> Fx(452, 10), sp |-> Fx(50, 1), aiSp |-> Fx(50, 1),
          lowLimit |-> Fx(20, 1), highLimit |-> Fx(80, 1), trend |-> <<>>]

InitialParameters ==
    [i \in 1 .. Len(ParamIds) |-> IF i = 1 THEN OreParameter ELSE OtherParameter(i)]

\* The body of prev.map((param) => ...): the update rule of the single parameter
\* dashboard on the parameter's own sp, pv and limits, and its trend.
UpdatedParameter(param, ks, kn, now) ==
    LET aiSp == AiSetpoint(TRUE, param.sp, param.lowLimit, param.highLimit, param.sp, ks)
        newPV == NewPV(param.pv, aiSp, kn)
    IN  [param EXCEPT !.aiSp = aiSp,
                      !.sp = aiSp,
                      !.pv = newPV,
                      !.trend = Push(@, [timestamp |-> now, pv |-> newPV, sp |-> aiSp])]

\* Mutant of PvOr: a missing parameter contributes nothing.
PvOrNothing(ps, i, fallback) == IF i <= Len(ps) THEN ps[i].pv ELSE 0

\* parameters[i]?.pv || fallback: the fallback replaces a missing parameter and
\* every falsy pv (0).
PvOr(ps, i, fallback) ==
    IF i <= Len(ps) /\ ps[i].pv # 0 THEN ps[i].pv ELSE fallback

\* Mutant of Influence: the pv is not normalised against its reference.
InfluenceUnnormalised(pv, reference, weight) == pv * weight

\* (pv / reference) * weight
Influence(pv, reference, weight) == (pv * weight) \div reference

\* const oreInfluence = ((parameters[0]?.pv || 125) / 130) * 20
OreInfluence(ps) == Influence(PvOr(ps, 1, Fx(125, 1)), 130, 20)

\* const waterInfluence = ((parameters[1]?.pv || 45) / 48) * 15
WaterInfluence(ps) == Influence(PvOr(ps, 2, Fx(45, 1)), 48, 15)

\* powerInfluence and densityInfluence: named by the source, their definitions are
\* not in it.  They are taken of the shape of the two above, on the third and the
\* fourth parameter.
PowerInfluence(ps) == Influence(PvOr(ps, 3, Fx(50, 1)), 50, 25)
DensityInfluence(ps) == Influence(PvOr(ps, 4, Fx(50, 1)), 50, 20)

\* const calculatedFraction = oreInfluence + waterInfluence + powerInfluence + densityInfluence + noise
CalculatedFraction(ps, kf) ==
    OreInfluence(ps) + WaterInfluence(ps) + PowerInfluence(ps) + DensityInfluence(ps)
        + Perturbation(kf)

\* The middle draw.
MidDraw == RandDen \div 2

\* Mutant of MTick: every parameter follows the setpoint of the first one.
MTickCoupled(a, ks, kn, kf) ==
    /\ Due(mIntervals)
    /\ parameters' =
          [i \in 1 .. Len(parameters) |->
              UpdatedParameter([parameters[i] EXCEPT !.sp = parameters[1].sp],
                               IF i = a THEN ks ELSE MidDraw,
                               IF i = a THEN kn ELSE MidDraw, mClock + 1)]
    /\ currentFraction' = CalculatedFraction(parameters, kf)
    /\ fractionData' = Push(fractionData,
                            [timestamp |-> mClock + 1,
                             value |-> CalculatedFraction(parameters, kf),
                             target |-> targetFraction])
    /\ mClock' = mClock + 1
    /\ mIntervals' = RerunEffect(Refire(mIntervals))
    /\ UNCHANGED <<targetFraction, mMounted>>
    /\ UNCHANGED singleVars

\* The callback of setInterval of the multi parameter dashboard: parameter a is
\* advanced with the draws (ks, kn), the others with the middle draw; the
\* fraction is computed from the parameters of the render the callback closes
\* over, with the draw kf.
MTick(a, ks, kn, kf) ==
    /\ Due(mIntervals)
    /\ LET calculatedFraction == CalculatedFraction(parameters, kf)
           newDataPoint == [timestamp |-> mClock + 1, value |-> calculatedFraction,
                            target |-> targetFraction]
       IN  /\ parameters' =
                 [i \in 1 .. Len(parameters) |->
                     IF i = a
                     THEN UpdatedParameter(parameters[i], ks, kn, mClock + 1)
                     ELSE UpdatedParameter(parameters[i], MidDraw, MidDraw, mClock + 1)]
           /\ currentFraction' = calculatedFraction
           /\ fractionData' = Push(fractionData, newDataPoint)
    /\ mClock' = mClock + 1
    /\ mIntervals' = RerunEffect(Refire(mIntervals))
    /\ UNCHANGED <<targetFraction, mMounted>>
    /\ UNCHANGED singleVars

MTickAny ==
    /\ mClock < MaxMultiTicks
    /\ \E a \in DrawnParams, ks \in Rand, kn \in Rand, kf \in Rand :
           MTick(a, ks, kn, kf)

\* Mutant of HandleLimitChange: the edit also brings aiSp and sp within the new limits.
HandleLimitChangeReclamp(parameter, type, value) ==
    LET low == IF type = "low" THEN value ELSE parameter.lowLimit
        high == IF type = "low" THEN parameter.highLimit ELSE value
    IN  [parameter EXCEPT !.lowLimit = low, !.highLimit = high,
                          !.aiSp = Max(low, Min(high, @)),
                          !.sp = Max(low, Min(high, @))]

\* handleLimitChange of the card of parameter i: the record of the card with
\* one limit replaced.
HandleLimitChange(parameter, type, value) ==
    IF type = "low"
    THEN [parameter EXCEPT !.lowLimit = value]
    ELSE [parameter EXCEPT !.highLimit = value]

\* Mutant of SliderAllows: the sliders have no min and no max.
SliderAllowsAny(parameter, type, value) == TRUE

\* The values the Slider of a limit lets through: min, max and step = 1 of the
\* Bounds Control.
SliderAllows(parameter, type, value) ==
    IF type = "low"
    THEN /\ 0 <= value
         /\ value <= parameter.highLimit - Fx(10, 1)
    ELSE /\ parameter.lowLimit + Fx(10, 1) <= value
         /\ 2 * value <= 3 * parameter.highLimit

\* The positions the limit sliders are dragged to.
SliderPositions == {Fx(60, 1), Fx(150, 1), Fx(200, 1)}

\* onParameterUpdate: the dashboard replaces the parameter of the same id.
OnParameterUpdate(ps, updated) ==
    [i \in 1 .. Len(ps) |-> IF ps[i].id = updated.id THEN updated ELSE ps[i]]

\* A limit slider of card i is dragged to value.
LimitChange(i, type, value) ==
    /\ mMounted
    /\ i \in 1 .. Len(parameters)
    /\ SliderAllows(parameters[i], type, value)
    /\ value # (IF type = "low" THEN parameters[i].lowLimit ELSE parameters[i].highLimit)
    /\ parameters' = OnParameterUpdate(parameters, HandleLimitChange(parameters[i], type, value))
    /\ mIntervals' = RerunEffect(mIntervals)
    /\ UNCHANGED <<fractionData, currentFraction, targetFraction, mMounted, mClock>>
    /\ UNCHANGED singleVars

\* What the target input hands to onTargetChange: Number.parseFloat(text) || 0,
\* for a text that parses (82) and for one that does not.
TargetChoices == {Fx(82, 1), 0}

\* onTargetChange
SetTargetFraction(v) ==
    /\ mMounted
    /\ v # targetFraction
    /\ targetFraction' = v
    /\ mIntervals' = RerunEffect(mIntervals)
    /\ UNCHANGED <<parameters, fractionData, currentFraction, mMounted, mClock>>
    /\ UNCHANGED singleVars

ResetMultiState ==
    /\ parameters' = InitialParameters
    /\ fractionData' = <<>>
    /\ currentFraction' = Fx(785, 10)
    /\ targetFraction' = Fx(82, 1)
    /\ mClock' = 0

\* start() of the multi parameter dashboard.
MMount ==
    /\ ~mMounted
    /\ mMounted' = TRUE
    /\ ResetMultiState
    /\ mIntervals' = SetInterval(mIntervals)
    /\ UNCHANGED singleVars

\* stop() of the multi parameter dashboard.
MUnmount ==
    /\ mMounted
    /\ mMounted' = FALSE
    /\ mIntervals' = ClearInterval(mIntervals)
    /\ UNCHANGED <<parameters, fractionData, currentFraction, targetFraction, mClock>>
    /\ UNCHANGED singleVars

InitMultiState ==
    /\ parameters = InitialParameters
    /\ fractionData = <<>>
    /\ currentFraction = Fx(785, 10)
    /\ targetFraction = Fx(82, 1)
    /\ mClock = 0

---------------------------------------------------------------------------
(* What the cards compute from the state at every render *)

\* Math.abs(error / divisor) * 100, as JavaScript evaluates it: a division by
\* zero gives NaN for 0 / 0 and Infinity otherwise, and neither Math.abs nor
\* the product changes that.  A finite result is held in whole percents.
ErrorPercentage(error, divisor) ==
    IF divisor = 0
    THEN [kind |-> IF error = 0 THEN "NaN" ELSE "Infinity", percent |-> 0]
    ELSE [kind |-> "number", percent |-> (Abs(error) * 100) \div Abs(divisor)]

\* ProcessParameterCard: const error = parameter.sp - parameter.pv;
\* const errorPercentage = Math.abs(error / parameter.sp) * 100
CardErrorPercentage(parameter) ==
    ErrorPercentage(parameter.sp - parameter.pv, parameter.sp)

\* FractionMainDisplay: const error = targetFraction - currentFraction;
\* const errorPercentage = Math.abs(error / targetFraction) * 100
FractionErrorPercentage(current, target) ==
    ErrorPercentage(target - current, target)

\* Mutant of IsInRange: the error may equal the bound.
IsInRangeInclusive(parameter) ==
    Abs(parameter.sp - parameter.pv) <= (parameter.highLimit - parameter.lowLimit) \div 20

\* ProcessParameterCard: const isInRange =
\* Math.abs(error) < (parameter.highLimit - parameter.lowLimit) * 0.05
IsInRange(parameter) ==
    Abs(parameter.sp - parameter.pv) < (parameter.highLimit - parameter.lowLimit) \div 20

\* Mutant of GetActionText: Converged is latched once a fraction sample exists.
GetActionTextLatched(error, isConverged) ==
    IF isConverged \/ fractionData # <<>> THEN "System Converged"
    ELSE IF error > Fx(2, 1) THEN "Increase Actuator"
    ELSE IF error < -Fx(2, 1) THEN "Decrease Actuator"
    ELSE "Fine Tuning"

\* Mutant of GetActionText: the directions exchanged.
GetActionTextReversed(error, isConverged) ==
    IF isConverged THEN "System Converged"
    ELSE IF error > Fx(2, 1) THEN "Decrease Actuator"
    ELSE IF error < -Fx(2, 1) THEN "Increase Actuator"
    ELSE "Fine Tuning"

\* ConvergenceIndicator: getActionText
GetActionText(error, isConverged) ==
    IF isConverged THEN "System Converged"
    ELSE IF error > Fx(2, 1) THEN "Increase Actuator"
    ELSE IF error < -Fx(2, 1) THEN "Decrease Actuator"
    ELSE "Fine Tuning"

\* ConvergenceIndicator: getActionIcon
GetActionIcon(error, isConverged) ==
    IF isConverged THEN "CheckCircle"
    ELSE IF error > Fx(2, 1) THEN "ArrowUp"
    ELSE IF error < -Fx(2, 1) THEN "ArrowDown"
    ELSE "Minus"

\* The isOptimal flag handed to FractionMainDisplay; the expression is not in
\* the source: |target - fraction| below a tolerance of 1.0.
IsOptimal(current, target) == Abs(target - current) < Fx(1, 1)

---------------------------------------------------------------------------
(* Specifications *)

\* The multi parameter page is not open.
InitMultiIdle ==
    /\ InitMultiState
    /\ mIntervals = <<>>
    /\ mMounted = FALSE

\* The single parameter page is not open.
InitSingleIdle ==
    /\ InitSingleState
    /\ intervals = <<>>
    /\ mounted = FALSE

\* The single parameter page is open.
Init ==
    /\ InitSingleState
    /\ mounted = TRUE
    /\ intervals = SetInterval(<<>>)
    /\ InitMultiIdle

Next ==
    \/ TickAny
    \/ Advance
    \/ Mount
    \/ Unmount
    \/ \E b \in BOOLEAN : SetAiEnabled(b)
    \/ \E v \in ManualChoices : SetManualSP(v)
    \/ \E v \in LowChoices : SetSpLowLimit(v)
    \/ \E v \in HighChoices : SetSpHighLimit(v)

Spec == Init /\ [][Next]_vars

\* The multi parameter page is open.
InitMulti ==
    /\ InitMultiState
    /\ mMounted = TRUE
    /\ mIntervals = SetInterval(<<>>)
    /\ InitSingleIdle

NextMulti ==
    \/ MTickAny
    \/ Advance
    \/ MMount
    \/ MUnmount
    \/ \E i \in EditedCards, type \in {"low", "high"}, value \in SliderPositions :
           LimitChange(i, type, value)
    \/ \E v \in TargetChoices : SetTargetFraction(v)

SpecMulti == InitMulti /\ [][NextMulti]_vars

\* The single parameter page with the timer callback and the render it causes
\* as two steps, between which the stop and the input changes may fall.
NextSteps ==
    \/ TickCallAny
    \/ Render
    \/ Advance
    \/ Mount
    \/ Unmount
    \/ \E b \in BOOLEAN : SetAiEnabled(b)
    \/ \E v \in ManualChoices : SetManualSP(v)
    \/ \E v \in LowChoices : SetSpLowLimit(v)
    \/ \E v \in HighChoices : SetSpHighLimit(v)

SpecSteps == Init /\ [][NextSteps]_vars

\* The parameter arrays the fraction is computed from: the eight parameters, and
\* arrays from which the parameters past the second, the first or none are missing.
ParameterArrays == {SubSeq(InitialParameters, 1, n) : n \in {0, 1, 2, Len(ParamIds)}}

\* The multi parameter page is open, with any of the parameter arrays.
InitFraction ==
    /\ parameters \in ParameterArrays
    /\ fractionData = <<>>
    /\ currentFraction = Fx(785, 10)
    /\ targetFraction = Fx(82, 1)
    /\ mClock = 0
    /\ mMounted = TRUE
    /\ mIntervals = SetInterval(<<>>)
    /\ InitSingleIdle

NextFraction ==
    \/ MTickAny
    \/ Advance
    \/ \E v \in TargetChoices : SetTargetFraction(v)

\* The fraction computation on complete and on incomplete parameter arrays.
SpecFraction == InitFraction /\ [][NextFraction]_vars

\* The errors sp - pv the ore card is shown with: none, the two sides of the
\* direction threshold 2, and the bounds 2.5, 5 and 7 that limits 50, 100 and
\* 140 apart give, of either sign.
ErrorChoices ==
    {0, Fx(2, 1), -Fx(2, 1), Fx(21, 10), -Fx(21, 10), Fx(25, 10), -Fx(25, 10),
     Fx(5, 1), -Fx(7, 1), Fx(10, 1)}

\* The multi parameter page is open, the ore card at any of the errors.
InitClassify ==
    /\ \E e \in ErrorChoices :
          parameters = [InitialParameters EXCEPT ![1].pv = OreParameter.sp - e]
    /\ fractionData = <<>>
    /\ currentFraction = Fx(785, 10)
    /\ targetFraction = Fx(82, 1)
    /\ mClock = 0
    /\ mMounted = TRUE
    /\ mIntervals = SetInterval(<<>>)
    /\ InitSingleIdle

NextClassify ==
    \/ Advance
    \/ \E i \in EditedCards, type \in {"low", "high"}, value \in SliderPositions :
           LimitChange(i, type, value)
    \/ \E v \in TargetChoices : SetTargetFraction(v)

\* The classification the cards show, for every error and every limit edit.
SpecClassify == InitClassify /\ [][NextClassify]_vars

\* The values of pv the fraction is computed from: the initial one, a small
\* one and 0.
PvChoices == {0, Fx(1, 1)}

\* The multi parameter page is open, all parameters present, the pv of ore and
\* of water at its initial value or at one of PvChoices.
InitFractionPv ==
    /\ \E ore \in PvChoices \cup {OreParameter.pv},
          water \in PvChoices \cup {OtherParameter(2).pv} :
          parameters = [InitialParameters EXCEPT ![1].pv = ore, ![2].pv = water]
    /\ fractionData = <<>>
    /\ currentFraction = Fx(785, 10)
    /\ targetFraction = Fx(82, 1)
    /\ mClock = 0
    /\ mMounted = TRUE
    /\ mIntervals = SetInterval(<<>>)
    /\ InitSingleIdle

\* The fraction computation on every value of pv.
SpecFractionPv == InitFractionPv /\ [][NextFraction]_vars

\* One of the two pages is open.
InitInputs == Init \/ InitMulti

\* The open page with its inputs changed between, and in the middle of, its
\* ticks, until it is closed.
NextInputs ==
    \/ TickCallAny
    \/ Render
    \/ MTickAny
    \/ Advance
    \/ Unmount
    \/ MUnmount
    \/ \E b \in BOOLEAN : SetAiEnabled(b)
    \/ \E v \in ManualChoices : SetManualSP(v)
    \/ \E v \in LowChoices : SetSpLowLimit(v)
    \/ \E v \in HighChoices : SetSpHighLimit(v)
    \/ \E i \in EditedCards, type \in {"low", "high"}, value \in SliderPositions :
           LimitChange(i, type, value)
    \/ \E v \in TargetChoices : SetTargetFraction(v)

SpecInputs == InitInputs /\ [][NextInputs]_vars

\* The same behaviours, with time passing and a due timer firing: the event
\* loop runs the callback of a timer that is due, and time does not stop.
SpecLive == Spec /\ WF_vars(Advance) /\ WF_vars(TickAny)

\* The draws of a long run: the draws of Rand in turn.
DrawSeq == <<0, RandDen \div 2, RandDen - 1>>
Draw(n) == DrawSeq[(n % Len(DrawSeq)) + 1]

TickSeq ==
    /\ clock < LongTicks
    /\ Tick(Draw(clock), Draw(clock + 1))

MTickSeq ==
    /\ mClock < LongTicks
    /\ MTick(1, Draw(mClock), Draw(mClock + 1), Draw(mClock + 2))

\* Both pages are open (in two windows), with the controls of the single
\* parameter page at any of their positions.
InitLong ==
    /\ processData = <<>>
    /\ currentPV = Fx(452, 10)
    /\ currentSP = Fx(50, 1)
    /\ aiEnabled \in BOOLEAN
    /\ spLowLimit \in LowChoices
    /\ spHighLimit \in HighChoices
    /\ manualSP \in ManualChoices
    /\ clock = 0
    /\ produced = <<>>
    /\ updates = <<>>
    /\ mounted = TRUE
    /\ intervals = SetInterval(<<>>)
    /\ InitMultiState
    /\ mMounted = TRUE
    /\ mIntervals = SetInterval(<<>>)

NextLong ==
    \/ TickSeq
    \/ MTickSeq
    \/ Advance

\* Long runs: more ticks than the history holds, the draws in a fixed order.
SpecLong == InitLong /\ [][NextLong]_vars

\* The ticks of a long run after which the mode and the manual setpoint are
\* changed: the first, and the one that fills the history.
EditTicks == {1, HistoryLen}

\* The single parameter page is open, its controls at any of their positions.
InitLongSingle ==
    /\ processData = <<>>
    /\ currentPV = Fx(452, 10)
    /\ currentSP = Fx(50, 1)
    /\ aiEnabled \in BOOLEAN
    /\ spLowLimit \in LowChoices
    /\ spHighLimit \in HighChoices
    /\ manualSP \in ManualChoices
    /\ clock = 0
    /\ produced = <<>>
    /\ updates = <<>>
    /\ mounted = TRUE
    /\ intervals = SetInterval(<<>>)
    /\ InitMultiIdle

NextLongSingle ==
    \/ TickSeq
    \/ Advance
    \/ /\ clock \in EditTicks
       /\ \/ \E b \in BOOLEAN : SetAiEnabled(b)
          \/ \E v \in ManualChoices : SetManualSP(v)

\* Long runs of the single parameter page with the mode and the manual
\* setpoint changed on the way.
SpecLongSingle == InitLongSingle /\ [][NextLongSingle]_vars

---------------------------------------------------------------------------
(* Properties *)

Last(s) == s[Len(s)]

\* A step of the single parameter dashboard that is a tick.
IsTick == clock' = clock + 1
\* A step of the multi parameter dashboard that is a tick.
IsMTick == mClock' = mClock + 1

\* C1: the aiSp produced by a tick with AI enabled and low < high lies in
\* [low, high], whatever pv and sp were before the tick.
C1_AiSpWithinBounds ==
    [][(IsTick /\ aiEnabled /\ spLowLimit < spHighLimit)
          => /\ spLowLimit <= currentSP'
             /\ currentSP' <= spHighLimit
             /\ Last(processData').aiSp = currentSP']_vars

\* C1 witness: an AI tick has brought back to the high limit a setpoint that a
\* manual override had left above it.
C1_Witness ==
    /\ Len(processData) >= 2
    /\ aiEnabled
    /\ processData[Len(processData) - 1].aiSp > spHighLimit
    /\ Last(processData).aiSp = spHighLimit
    /\ currentSP = spHighLimit

WithinLimits(param) ==
    /\ param.lowLimit <= param.aiSp
    /\ param.aiSp <= param.highLimit

AllWithinLimits(ps) == \A i \in 1 .. Len(ps) : WithinLimits(ps[i])

SameLimits(ps, qs) ==
    /\ Len(ps) = Len(qs)
    /\ \A i \in 1 .. Len(ps) :
          /\ ps[i].lowLimit = qs[i].lowLimit
          /\ ps[i].highLimit = qs[i].highLimit

\* C2 as claimed: in every reachable state of the multi parameter engine every
\* parameter has lowLimit <= aiSp <= highLimit.
C2_AiSpAlwaysWithinLimits == AllWithinLimits(parameters)

\* C2 as amended: every tick leaves every parameter with lowLimit <= aiSp <=
\* highLimit, and every step that is not a limit edit keeps it so; a limit edit
\* changes the limit alone, so aiSp may lie outside the new limits until the
\* next tick.
C2_TickRestoresLimits ==
    [][/\ IsMTick => AllWithinLimits(parameters')
       /\ (AllWithinLimits(parameters) /\ SameLimits(parameters, parameters'))
             => AllWithinLimits(parameters')]_vars

\* C2 witness: the low limit of the ore card was raised above its aiSp and a
\* tick has brought aiSp to the new limit.
C2_Witness ==
    /\ mClock >= 1
    /\ parameters[1].lowLimit = Fx(150, 1)
    /\ parameters[1].aiSp = Fx(150, 1)
    /\ Last(parameters[1].trend).sp = Fx(150, 1)

\* C3: no history buffer (the single parameter trend, the trend of each
\* parameter, the fraction trend) holds more than 50 samples.
C3_HistoryBounded ==
    /\ Len(processData) <= HistoryLen
    /\ \A i \in 1 .. Len(parameters) : Len(parameters[i].trend) <= HistoryLen
    /\ Len(fractionData) <= HistoryLen

\* C3 witness: more than 50 ticks of both dashboards, every buffer full.
C3_Witness ==
    /\ clock > HistoryLen
    /\ mClock > HistoryLen
    /\ Len(processData) = HistoryLen
    /\ \A i \in 1 .. Len(parameters) : Len(parameters[i].trend) = HistoryLen
    /\ Len(fractionData) = HistoryLen

\* C4: after n ticks the history holds exactly the last min(n, 50) samples
\* produced, in the order of their production; past 50 ticks the first sample
\* is gone and the newest is the last element.
C4_HistoryIsFifo ==
    LET n == Len(produced)
        k == Min(n, HistoryLen)
    IN  /\ n = clock
        /\ Len(processData) = k
        /\ \A j \in 1 .. k : processData[j] = produced[n - k + j]
        /\ n > HistoryLen =>
              /\ \A j \in 1 .. k : processData[j] # produced[1]
              /\ Last(processData) = Last(produced)

\* C4 witness: the 51st tick has evicted the sample of the 1st.
C4_Witness ==
    /\ clock = HistoryLen + 1
    /\ Len(processData) = HistoryLen
    /\ processData[1].timestamp = 2
    /\ Last(processData).timestamp = HistoryLen + 1

\* C5: on a tick with AI disabled aiSp is manualSP as it is, also outside
\* [low, high].
C5_ManualBypass ==
    [][(IsTick /\ ~aiEnabled)
          => /\ currentSP' = manualSP
             /\ Last(processData').aiSp = manualSP
             /\ Last(processData').sp = manualSP]_vars

\* C5 witness: a manual tick has set the setpoint above every high limit.
C5_Witness ==
    /\ clock >= 1
    /\ ~aiEnabled
    /\ manualSP = Fx(90, 1)
    /\ manualSP > spHighLimit
    /\ currentSP = manualSP
    /\ Last(processData).aiSp = manualSP

\* C6: when the dashboard is stopped no timer is left armed, and no step
\* between stop() and the next start() changes pv, sp or the history.
C6_NoTickWhileStopped ==
    [][/\ ~mounted => intervals = <<>>
       /\ (~mounted /\ ~mounted')
             => UNCHANGED <<currentPV, currentSP, processData, clock>>]_vars

\* C6 witness: stopped after a tick, with the timer cancelled.
C6_Witness ==
    /\ ~mounted
    /\ clock >= 1
    /\ intervals = <<>>

\* C7: whenever the scheduler is Running a tick eventually fires (or the
\* scheduler is stopped), as long as ticks are left in the model.
C7_TickEventuallyFires ==
    \A n \in 0 .. (MaxTicks - 1) :
        (mounted /\ clock = n) ~> (~mounted \/ clock # n)

\* A step that changes an input of the running dashboard.
InputChanged ==
    /\ mounted
    /\ mounted'
    /\ \/ aiEnabled' # aiEnabled
       \/ manualSP' # manualSP
       \/ spLowLimit' # spLowLimit
       \/ spHighLimit' # spHighLimit

\* C8: an input change made while Running leaves the armed timer as it is.
C8_InputKeepsTimer == [][InputChanged => intervals' = intervals]_vars

\* The state of the example: pv = 45.2, sp = 50.0, low = 20, high = 80, AI enabled.
ExampleState ==
    /\ currentPV = Fx(452, 10)
    /\ currentSP = Fx(50, 1)
    /\ spLowLimit = Fx(20, 1)
    /\ spHighLimit = Fx(80, 1)
    /\ aiEnabled

\* C9 as claimed: from the example state every next pv lies in
\* [45.68 - 0.75, 45.68 + 0.75] = [44.93, 46.43].
C9_ExampleWithinBand ==
    [][(ExampleState /\ IsTick)
          => /\ Fx(4493, 100) <= currentPV'
             /\ currentPV' <= Fx(4643, 100)]_vars

\* C9 as amended: the setpoint is perturbed by at most 1 before the pv follows
\* it, so the core term lies in [45.58, 45.78] and every next pv in
\* [45.58 - 0.75, 45.78 + 0.75] = [44.83, 46.53].
C9_ExampleWithinWidenedBand ==
    [][(ExampleState /\ IsTick)
          => /\ Fx(4483, 100) <= currentPV'
             /\ currentPV' <= Fx(4653, 100)
             /\ Fx(49, 1) <= currentSP'
             /\ currentSP' <= Fx(51, 1)]_vars

\* C9 witness: the first tick from the example state, with the lowest draws,
\* has given aiSp = 49 and pv = 44.83.
C9_Witness ==
    /\ clock = 1
    /\ Len(processData) = 1
    /\ processData[1].aiSp = Fx(49, 1)
    /\ currentPV = Fx(4483, 100)
    /\ aiEnabled
    /\ spLowLimit = Fx(20, 1)
    /\ spHighLimit = Fx(80, 1)

\* C10: on every tick the next pv differs from pv + 0.1 * (aiSp - pv) by at
\* most 0.75 (stated on ten times the difference, which is exact).
C10_PvResponse ==
    [][IsTick
          => 2 * Abs(10 * (currentPV' - currentPV) - (currentSP' - currentPV))
                <= 15 * Scale]_vars

\* C10 witness: a tick whose noise had the full magnitude 0.75.
C10_Witness ==
    /\ Len(processData) >= 2
    /\ LET before == processData[Len(processData) - 1]
           after == Last(processData)
       IN  2 * (10 * (after.pv - before.pv) - (after.aiSp - before.pv)) = -15 * Scale

\* C11: at most one periodic timer is armed at any time, exactly one while the
\* dashboard is Running and none while it is Idle, whatever sequence of starts,
\* stops, input changes and ticks led there.
C11_AtMostOneTimer ==
    /\ Len(intervals) <= 1
    /\ mounted <=> (Len(intervals) = 1)

\* C11 witness: Running with one timer after a tick and an input change, each of
\* which has run the effect again.
C11_Witness ==
    /\ mounted
    /\ clock >= 1
    /\ manualSP = Fx(10, 1)
    /\ Len(intervals) = 1

\* C12: stop() is idempotent.  Every stop leaves the scheduler Idle with the
\* engine state as it was, and the cleanup applied once more to the state it
\* left (a second stop, or a stop while Idle) changes nothing.
C12_StopIdempotent ==
    [][/\ (mounted /\ ~mounted')
             => /\ intervals' = <<>>
                /\ ClearInterval(intervals') = intervals'
                /\ UNCHANGED <<processData, currentPV, currentSP, aiEnabled,
                               spLowLimit, spHighLimit, manualSP, clock>>
       /\ ~mounted => ClearInterval(intervals) = intervals]_vars

\* C12 witness: Idle after a stop that followed a tick and an input change, the
\* history kept.
C12_Witness ==
    /\ ~mounted
    /\ intervals = <<>>
    /\ processData # <<>>
    /\ manualSP # Fx(50, 1)

\* C13: ticks are mutually exclusive.  A timer callback begins only when no
\* update of an earlier callback is waiting to be applied, and the updates
\* waiting are those of one callback at most.
C13_TicksMutuallyExclusive ==
    [][/\ Len(updates') > Len(updates) => updates = <<>>
       /\ Len(updates') <= Len(QueuedUpdates(<<>>))]_vars

\* C13 witness: a second callback has begun after the updates of the first were
\* applied.
C13_Witness ==
    /\ clock >= 1
    /\ processData # <<>>
    /\ updates # <<>>
    /\ updates[1].point.timestamp = clock + 1

\* C14: a timer firing is applied once and as a whole.  In every state with a
\* non-empty history the last sample's pv is the current PV and its sp the
\* current SP, also with a stop or an input change between the callback and its
\* render; and a step that adds to the history adds the one sample of the tick,
\* leaving no update of it behind.
C14_TickAtomic ==
    [][/\ processData' # <<>>
             => /\ Last(processData').pv = currentPV'
                /\ Last(processData').sp = currentSP'
       /\ Len(produced') > Len(produced)
             => /\ Len(produced') = Len(produced) + 1
                /\ Last(processData') = Last(produced')
                /\ updates' = <<>>
       /\ (currentPV' # currentPV \/ currentSP' # currentSP)
             => (Len(produced') > Len(produced) \/ (mounted' /\ ~mounted))]_vars

\* C14 witness: the callback of the second tick has run and an input was changed
\* before its render; the state still shows the first tick whole.
C14_Witness ==
    /\ clock = 1
    /\ Len(processData) = 1
    /\ updates # <<>>
    /\ ~aiEnabled
    /\ processData[1].pv = currentPV
    /\ updates[1].point.aiSp = manualSP
    /\ currentSP # manualSP

\* The limits are at least 10 apart.
MinimumGap(param) == param.highLimit - param.lowLimit >= Fx(10, 1)

\* The limits the card would hand over if the slider let value through.
WouldBeInvalid(param, type, value) ==
    LET edited == HandleLimitChange(param, type, value)
    IN  edited.lowLimit >= edited.highLimit

\* C15: invalid bounds never reach the update rule.  Every state, and so every
\* tick, has highLimit - lowLimit >= 10 for every parameter, whatever limit
\* edits were made through the card; a slider position that would make
\* low >= high is not let through, so no step takes it and the bounds stay.
C15_BoundsValidAtTick ==
    /\ \A i \in 1 .. Len(parameters) : MinimumGap(parameters[i])
    /\ \A i \in EditedCards, type \in {"low", "high"}, value \in SliderPositions :
          WouldBeInvalid(parameters[i], type, value)
              => ~ENABLED LimitChange(i, type, value)

\* C15 witness: both limits of the ore card were edited, a tick has run with
\* them, and the high slider does not go down to the low limit.
C15_Witness ==
    /\ mClock >= 1
    /\ parameters[1].lowLimit = Fx(60, 1)
    /\ parameters[1].highLimit = Fx(150, 1)
    /\ Last(parameters[1].trend).timestamp = mClock
    /\ WouldBeInvalid(parameters[1], "high", Fx(60, 1))
    /\ ~SliderAllows(parameters[1], "high", Fx(60, 1))

\* C16: the deviation percentage is guarded against a zero divisor: neither a
\* card (sp = 0) nor the fraction display (target = 0, which an unparsable
\* target input gives) ever computes a value that is not a finite number.
C16_DeviationFinite ==
    /\ FractionErrorPercentage(currentFraction, targetFraction).kind = "number"
    /\ \A i \in 1 .. Len(parameters) : CardErrorPercentage(parameters[i]).kind = "number"

\* The pv the fraction uses for the parameter at place i: its own, or the
\* default when the array does not hold it.
PvOrDefault(ps, i, default) == IF Len(ps) >= i THEN ps[i].pv ELSE default

\* C17: when a parameter the fraction refers to is missing from the array, the
\* tick still produces a fraction, computed with the default pv of that
\* parameter (125 for ore, 45 for water) in place of its pv.
C17_MissingParameterFallback ==
    [][IsMTick
          => /\ \E kf \in Rand :
                   currentFraction' =
                       Influence(PvOrDefault(parameters, 1, Fx(125, 1)), 130, 20)
                     + Influence(PvOrDefault(parameters, 2, Fx(45, 1)), 48, 15)
                     + PowerInfluence(parameters) + DensityInfluence(parameters)
                     + Perturbation(kf)
             /\ Last(fractionData').value = currentFraction'
             /\ Len(parameters') = Len(parameters)]_vars

\* C17 witness: a tick on an array without ore and water has produced the
\* fraction of the defaults, within the noise.
C17_Witness ==
    /\ mClock >= 1
    /\ parameters = <<>>
    /\ fractionData # <<>>
    /\ Abs(currentFraction
             - (Influence(Fx(125, 1), 130, 20) + Influence(Fx(45, 1), 48, 15)
                + PowerInfluence(<<>>) + DensityInfluence(<<>>))) <= Scale

\* The sum of the influences of the parameters ps, the two the source defines
\* written out: ore with reference 130 and weight 20, water with reference 48
\* and weight 15.
InfluenceSum(ps) ==
    (ps[1].pv * 20) \div 130 + (ps[2].pv * 15) \div 48
        + PowerInfluence(ps) + DensityInfluence(ps)

\* C18: on every tick of the multi parameter dashboard the fraction computed
\* differs from the sum of the influences (pv / reference) * weight of the
\* parameters' current pv, the pv the tick finds, by a noise of magnitude 1 at
\* most; the fraction sample appended holds that fraction.
C18_FractionAggregation ==
    [][IsMTick
          => /\ Abs(currentFraction' - InfluenceSum(parameters)) <= Scale
             /\ Last(fractionData').value = currentFraction'
             /\ Last(fractionData').target = targetFraction]_vars

\* C18 witness: the first tick, whose noise had the full magnitude 1.
C18_Witness ==
    /\ mClock = 1
    /\ Len(fractionData) = 1
    /\ currentFraction = InfluenceSum(InitialParameters) - Scale
    /\ fractionData[1].value = currentFraction

\* The errors the classification is given: sp - pv of every card, and
\* target - fraction.
ShownErrors ==
    {parameters[i].sp - parameters[i].pv : i \in 1 .. Len(parameters)}
        \cup {targetFraction - currentFraction}

\* C19: the classification follows its rule.  A card is InRange exactly when
\* |error| < (highLimit - lowLimit) * 0.05; the action is Converged whenever the
\* flag is set, whatever the error, and otherwise Increase for error > 2,
\* Decrease for error < -2 and FineTune for -2 <= error <= 2; the icon follows
\* the action.
C19_ClassificationMatchesRule ==
    /\ \A i \in 1 .. Len(parameters) :
          LET p == parameters[i]
              error == p.sp - p.pv
          IN  IsInRange(p) <=>
                  /\ 20 * error < p.highLimit - p.lowLimit
                  /\ -20 * error < p.highLimit - p.lowLimit
    /\ \A error \in ShownErrors :
          /\ GetActionText(error, TRUE) = "System Converged"
          /\ error > Fx(2, 1) => GetActionText(error, FALSE) = "Increase Actuator"
          /\ error < -Fx(2, 1) => GetActionText(error, FALSE) = "Decrease Actuator"
          /\ (-Fx(2, 1) <= error /\ error <= Fx(2, 1))
                => GetActionText(error, FALSE) = "Fine Tuning"
          /\ \A isConverged \in BOOLEAN :
                <<GetActionText(error, isConverged), GetActionIcon(error, isConverged)>>
                    \in {<<"System Converged", "CheckCircle">>,
                         <<"Increase Actuator", "ArrowUp">>,
                         <<"Decrease Actuator", "ArrowDown">>,
                         <<"Fine Tuning", "Minus">>}

\* C19 witness: the high limit of the ore card was lowered to 150, and its
\* error 2.5 is at the bound of the range: not InRange, and Increase.
C19_Witness ==
    /\ parameters[1].highLimit = Fx(150, 1)
    /\ parameters[1].lowLimit = Fx(100, 1)
    /\ parameters[1].sp - parameters[1].pv = Fx(25, 10)
    /\ ~IsInRange(parameters[1])
    /\ GetActionText(Fx(25, 10), IsInRange(parameters[1])) = "Increase Actuator"

\* The state of the example: the eight parameters at their initial values,
\* target fraction 82.0, current fraction 78.5.
ExampleFractionState ==
    /\ parameters = InitialParameters
    /\ targetFraction = Fx(82, 1)
    /\ currentFraction = Fx(785, 10)

\* C20: in the example state the error is 3.5, the convergence flag is false
\* (3.5 is not below the tolerance 1.0), so the status is OutOfRange, and the
\* direction is Increase.
C20_ExampleIncrease ==
    ExampleFractionState
        => LET error == targetFraction - currentFraction
               isOptimal == IsOptimal(currentFraction, targetFraction)
           IN  /\ error = Fx(35, 10)
               /\ ~isOptimal
               /\ GetActionText(error, isOptimal) = "Increase Actuator"
               /\ GetActionIcon(error, isOptimal) = "ArrowUp"

\* C20 witness: the example state on the open page, part of the first interval
\* gone, shown as Increase.
C20_Witness ==
    /\ ExampleFractionState
    /\ mMounted
    /\ mClock = 0
    /\ mIntervals = <<Period - 1>>
    /\ GetActionText(targetFraction - currentFraction, FALSE) = "Increase Actuator"

\* Cards the classification is evaluated on in every state: the ore card at
\* each error, with its limits 100 and 50 apart.
ProbeCards ==
    {[OreParameter EXCEPT !.pv = OreParameter.sp - e, !.highLimit = h] :
        e \in ErrorChoices, h \in {Fx(200, 1), Fx(150, 1)}}

\* What the classifier gives in the present state: the status of every probe
\* card, and the action and icon of every (error, flag) pair.
Classification ==
    [status |-> [card \in ProbeCards |-> IsInRange(card)],
     action |-> [e \in ErrorChoices, isConverged \in BOOLEAN |->
                    <<GetActionText(e, isConverged), GetActionIcon(e, isConverged)>>]]

Edited(ps, qs) == {i \in 1 .. Len(ps) : ps[i] # qs[i]}

\* A step that changes an input of the running multi parameter dashboard.
MultiInputChanged ==
    /\ mMounted
    /\ mMounted'
    /\ \/ targetFraction' # targetFraction
       \/ ~SameLimits(parameters, parameters')

\* C22: an input accessor changes only the input it names.  A limit edit
\* changes one parameter record, in lowLimit alone or in highLimit alone; and a
\* step that changes aiEnabled, the manual setpoint, a limit or the target
\* fraction leaves pv, sp, aiSp, every history buffer and the updates of a tick
\* under way as they are, also between the callback of a tick and its render.
C22_AccessorFrame ==
    [][/\ InputChanged
             => UNCHANGED <<currentPV, currentSP, processData, produced, clock, updates>>
       /\ MultiInputChanged
             => /\ UNCHANGED <<fractionData, currentFraction, mClock>>
                /\ Len(parameters') = Len(parameters)
                /\ \A i \in 1 .. Len(parameters) :
                      /\ parameters'[i].pv = parameters[i].pv
                      /\ parameters'[i].sp = parameters[i].sp
                      /\ parameters'[i].aiSp = parameters[i].aiSp
                      /\ parameters'[i].trend = parameters[i].trend
                      /\ parameters'[i].id = parameters[i].id
                      /\ \/ parameters'[i].lowLimit = parameters[i].lowLimit
                         \/ parameters'[i].highLimit = parameters[i].highLimit
                /\ Cardinality(Edited(parameters, parameters')) <= 1
                /\ targetFraction' # targetFraction => parameters' = parameters]_vars

\* C22 witness: after a tick the low limit of the ore card was raised above its
\* aiSp, which the edit has left where the tick put it.
C22_Witness ==
    /\ mClock >= 1
    /\ parameters[1].lowLimit = Fx(150, 1)
    /\ parameters[1].aiSp < Fx(150, 1)
    /\ parameters[1].aiSp = Last(parameters[1].trend).sp
    /\ parameters[1].pv = Last(parameters[1].trend).pv

\* The record q is the record p advanced once by the update rule on p's own sp,
\* pv and limits, for some draws, with its sample appended at time now.
AdvancedAlone(p, q, now) ==
    \E ks \in Rand, kn \in Rand :
        LET aiSp == Max(p.lowLimit, Min(p.highLimit, p.sp + Perturbation(ks)))
            pv == p.pv + (aiSp - p.pv) \div 10 + Noise(kn)
        IN  /\ q.aiSp = aiSp
            /\ q.sp = aiSp
            /\ q.pv = pv
            /\ q.id = p.id
            /\ q.lowLimit = p.lowLimit
            /\ q.highLimit = p.highLimit
            /\ Len(q.trend) = Min(Len(p.trend) + 1, HistoryLen)
            /\ Last(q.trend) = [timestamp |-> now, pv |-> pv, sp |-> aiSp]

C24_FallbackOnlyWhenAbsent ==
    [][(IsMTick /\ Len(parameters) = Len(ParamIds))
          => \E kf \in Rand :
                currentFraction' = InfluenceSum(parameters) + Perturbation(kf)]_vars

\* C25: every sample of the single parameter history has sp = aiSp, in AI mode
\* and in manual mode, and the samples are not rewritten: a tick keeps the
\* samples it does not evict as they are, in their order, and appends its own;
\* any other step of the running dashboard leaves the history as it is.
C25_SamplesImmutable ==
    [][/\ \A j \in 1 .. Len(processData') :
             processData'[j].sp = processData'[j].aiSp
       /\ IsTick
             => LET kept == Len(processData') - 1
                IN  /\ kept = Min(Len(processData), HistoryLen - 1)
                    /\ SubSeq(processData', 1, kept)
                          = SubSeq(processData, Len(processData) - kept + 1,
                                   Len(processData))
       /\ (~IsTick /\ mounted) => processData' = processData]_vars

\* C25 witness: the history is full and has lost its first sample; it holds
\* samples of the AI mode and of the manual mode, made before and after a
\* change of the manual setpoint.
C25_Witness ==
    /\ clock > HistoryLen
    /\ Len(processData) = HistoryLen
    /\ processData[1].timestamp > 1
    /\ ~aiEnabled
    /\ Last(processData).sp = manualSP
    /\ \E j \in 1 .. Len(processData) :
          /\ processData[j].sp # manualSP
          /\ processData[j].sp = processData[j].aiSp

\* The setpoint lies within the limits.
SpInBounds == spLowLimit <= currentSP /\ currentSP <= spHighLimit

\* A limit is edited.
BoundsEdited == spLowLimit' # spLowLimit \/ spHighLimit' # spHighLimit

\* C26: on a tick with AI enabled, low < high and the setpoint within the
\* limits, the new aiSp is at most 1 away from the setpoint.  A larger jump
\* needs a setpoint outside the limits, and that is only what a manual tick or
\* an edit of the limits leaves behind: every AI tick ends with the setpoint
\* within the limits, and no other step takes it out of them.
C26_BoundedAiStep ==
    [][/\ (IsTick /\ aiEnabled /\ spLowLimit < spHighLimit /\ SpInBounds)
             => /\ Abs(Last(processData').aiSp - currentSP) <= Scale
                /\ Abs(currentSP' - currentSP) <= Scale
       /\ (IsTick /\ aiEnabled /\ spLowLimit < spHighLimit) => SpInBounds'
       /\ (SpInBounds /\ ~SpInBounds')
             => ((IsTick /\ ~aiEnabled) \/ BoundsEdited)]_vars

\* C26 witness: the first tick, in AI mode, moved the setpoint from 50 by at
\* most 1; then the lower limit was raised above it, and the second tick, in
\* AI mode, jumped to the limit.
C26_Witness ==
    /\ Len(processData) = 2
    /\ aiEnabled
    /\ processData[1].aiSp # Fx(50, 1)
    /\ Abs(processData[1].aiSp - Fx(50, 1)) <= Scale
    /\ processData[2].aiSp = spLowLimit
    /\ currentSP = spLowLimit
    /\ processData[2].aiSp - processData[1].aiSp > Scale

===========================================================================
